---- MODULE Spec2Model ----
(***************************************************************************)
(* Model of uob_utils.py: the University-week date functions (WeekOne,     *)
(* UniversityWeek, DateFromUniversityWeek, AcademicYear, TermWeek,         *)
(* FindCorrespondingDate) and the working-day counter days_since_deadline. *)
(*                                                                         *)
(* A date is its proleptic Gregorian ordinal (datetime.date.toordinal()).  *)
(* A datetime is a number of ticks: ordinal * TicksPerDay + time of day,   *)
(* so that a deadline and "now" can fall at different times of the day.    *)
(***************************************************************************)
EXTENDS Integers, FiniteSets, Sequences, TLC

\* ------------------------------------------------------------ bounds
\* First calendar year of the dates the week functions are applied to.
FirstYear == 2023
\* Number of calendar years of dates the week functions are applied to.
NumYears == 2
\* Resolution of a datetime: ticks per day (time of day is 0 .. TicksPerDay-1).
TicksPerDay == 2
\* Number of consecutive deadline dates tried, from Monday 12 December 2022.
NumDeadlineDays == 7
\* "now" is at most this many days after the deadline.
MaxElapsedDays == 8
\* Length of the short block of closed dates right after the deadline.
BlockDays == 3

\* ------------------------------------------------- datetime library
\* datetime: a year is leap by the Gregorian rule.
IsLeap(y) == (y % 4 = 0) /\ ((y % 100 # 0) \/ (y % 400 = 0))

\* datetime: number of days before 1 January of year y.
DaysBeforeYear(y) == (y - 1) * 365 + (y - 1) \div 4 - (y - 1) \div 100 + (y - 1) \div 400

\* datetime: number of days in month m of year y.
DaysInMonth(y, m) ==
    IF m = 2 THEN (IF IsLeap(y) THEN 29 ELSE 28)
    ELSE IF m \in {4, 6, 9, 11} THEN 30 ELSE 31

\* datetime: number of days in year y before the first of month m.
RECURSIVE DaysBeforeMonth(_, _)
DaysBeforeMonth(y, m) ==
    IF m = 1 THEN 0 ELSE DaysBeforeMonth(y, m - 1) + DaysInMonth(y, m - 1)

\* datetime.date(y, m, d).toordinal()
Ymd2Ord(y, m, d) == DaysBeforeYear(y) + DaysBeforeMonth(y, m) + d

\* date.year of the date with ordinal n (datetime's _ord2ymd).
YearOf(n) ==
    LET n0   == n - 1
        n400 == n0 \div 146097
        r400 == n0 % 146097
        n100 == r400 \div 36524
        r100 == r400 % 36524
        n4   == r100 \div 1461
        r4   == r100 % 1461
        n1   == r4 \div 365
        y    == n400 * 400 + n100 * 100 + n4 * 4 + n1 + 1
    IN  IF n1 = 4 \/ n100 = 4 THEN y - 1 ELSE y

\* date.weekday(): Monday = 0 .. Sunday = 6.
Weekday(n) == (n + 6) % 7

\* ------------------------------------------------- week conversion
\* Mutant: the Friday itself is returned, the four days are not subtracted.
WeekOne_NoShift(year) ==
    LET aug31 == Ymd2Ord(year, 8, 31)
    IN  aug31 - ((Weekday(aug31) + 3) % 7)

\* WeekOne(year): calendar.Calendar(4) lays August out in weeks that start on
\* Friday; the last week's first day is the Friday on or before 31 August;
\* the Monday is four days earlier.
WeekOne(year) ==
    LET aug31    == Ymd2Ord(year, 8, 31)
        friday   == aug31 - ((Weekday(aug31) + 3) % 7)
        monday   == friday - 4
    IN  monday

\* Mutant: a date before this year's week one is measured from this year's
\* week one too.
UniversityWeek_SameYear(date) ==
    ((date - WeekOne(YearOf(date))) \div 7) + 1

\* UniversityWeek(date)
UniversityWeek(date) ==
    IF date >= WeekOne(YearOf(date))
    THEN ((date - WeekOne(YearOf(date))) \div 7) + 1
    ELSE ((date - WeekOne(YearOf(date) - 1)) \div 7) + 1

\* DateFromUniversityWeek(ayear, uweek, dow)
DateFromUniversityWeek(ayear, uweek, dow) ==
    WeekOne(ayear) + 7 * (uweek - 1) + dow

\* Mutant: week one itself is counted into the previous academic year.
AcademicYear_Strict(date) ==
    IF date > WeekOne(YearOf(date)) THEN YearOf(date) ELSE YearOf(date) - 1

\* AcademicYear(date)
AcademicYear(date) ==
    IF date >= WeekOne(YearOf(date)) THEN YearOf(date) ELSE YearOf(date) - 1

\* TermWeek(date): <<term, term week, university week>>.
TermWeek(date) ==
    LET uweek == UniversityWeek(date)
    IN  IF uweek <= 16 /\ uweek >= 5 THEN <<1, uweek - 5, uweek>>
        ELSE IF uweek <= 31 /\ uweek >= 21 THEN <<2, uweek - 20, uweek>>
        ELSE IF uweek <= 43 /\ uweek >= 36 THEN <<3, uweek - 35, uweek>>
        ELSE <<0, 0, uweek>>

\* Mutant: the date's own academic year is used, not the one asked for.
FindCorrespondingDate_OwnYear(date, ayear) ==
    DateFromUniversityWeek(AcademicYear(date), UniversityWeek(date), Weekday(date))

\* FindCorrespondingDate(date, ayear)
FindCorrespondingDate(date, ayear) ==
    DateFromUniversityWeek(ayear, UniversityWeek(date), Weekday(date))

\* ------------------------------------------------ working-day counter
\* DAYS_TO_MARK
DAYS_TO_MARK == 15

\* The scan of days_since_deadline gives up beyond this many days.
MaxScanDays == 1000

\* READABLE_CLOSED_DAYS, as <<year, month, day>> triples.
READABLE_CLOSED_DAYS ==
    { <<2022, 12, 19>>, <<2022, 12, 20>>, <<2022, 12, 21>>, <<2022, 12, 22>>, <<2022, 12, 23>>,
      <<2022, 12, 26>>, <<2022, 12, 27>>, <<2022, 12, 28>>, <<2022, 12, 29>>, <<2022, 12, 30>>,
      <<2023, 1, 2>>,
      <<2023, 4, 7>>, <<2023, 4, 10>>, <<2023, 4, 11>>, <<2023, 4, 12>>,
      <<2023, 5, 1>>, <<2023, 5, 29>>, <<2023, 8, 28>> }

\* closed_dates for the list above: the closed dates without times.
ReadableClosedDates == { Ymd2Ord(i[1], i[2], i[3]) : i \in READABLE_CLOSED_DAYS }

\* datetime.date() of a datetime.
DateOf(dt) == dt \div TicksPerDay

\* datetime.datetime(y, m, d) of a date: its midnight.
Midnight(d) == d * TicksPerDay

\* math.ceil((today - deadline).total_seconds() / 86400)
RawElapsed(deadline, today) ==
    -((deadline - today) \div TicksPerDay)

\* The "Remove weekends" loop: i runs over range(1, days_elapsed + 1), a range
\* fixed when the loop starts; acc is days_elapsed as the loop decrements it.
RECURSIVE RemoveWeekends(_, _, _, _)
RemoveWeekends(deadline, i, last, acc) ==
    IF i > last THEN acc
    ELSE RemoveWeekends(deadline, i + 1, last,
            IF Weekday(DateOf(deadline + i * TicksPerDay)) > 4 THEN acc - 1 ELSE acc)

\* The test of the "Remove closed days" loop for one closed day.
ClosedDayElapsed(deadline, today, closed_date) ==
    (today - Midnight(closed_date)) > 0 /\ (deadline - Midnight(closed_date)) < 0

\* The "Remove closed days" loop: one decrement per closed day that passes.
RemoveClosedDays(deadline, today, closed, acc) ==
    acc - Cardinality({ c \in closed : ClosedDayElapsed(deadline, today, c) })

\* Mutant: only the weekday is tested, closed dates count as working days.
CountsAsWorkingDay_WeekdayOnly(dt, closed) ==
    Weekday(DateOf(dt)) < 5

\* The test of the marking-deadline scan and of is_working_day.
CountsAsWorkingDay(dt, closed) ==
    Weekday(DateOf(dt)) < 5 /\ DateOf(dt) \notin closed

\* Mutant: the scan gives up one day later.
ScanLimitExceeded_OneLater(n) == n > MaxScanDays + 1

\* The safety valve of the scan.
ScanLimitExceeded(n) == n > MaxScanDays

\* ------------------------------------------------------------- state
VARIABLES
    call,       \* the week function that was called, "none" before the call
    date,       \* its date argument
    ayear,      \* its academic-year argument
    uweek,      \* DateFromUniversityWeek's week argument
    dow,        \* DateFromUniversityWeek's day-of-week argument
    ret,        \* the value the week function returned
    pc,         \* days_since_deadline: "start", "scan", "returned", "exited"
    deadline,   \* its argument, a datetime
    today,      \* datetime.datetime.now()
    closed_dates,                  \* the closed dates
    days_elapsed,
    working_days_from_deadline,
    days_from_deadline,
    marking_deadline,
    is_working_day,
    result      \* the first element of the returned tuple

weekVars == <<call, date, ayear, uweek, dow, ret>>
deadlineVars == <<pc, deadline, today, closed_dates, days_elapsed,
                  working_days_from_deadline, days_from_deadline,
                  marking_deadline, is_working_day, result>>
vars == <<call, date, ayear, uweek, dow, ret, pc, deadline, today, closed_dates,
          days_elapsed, working_days_from_deadline, days_from_deadline,
          marking_deadline, is_working_day, result>>

\* ------------------------------------------------------------ inputs
\* Dates the week functions are applied to.
Dates == Ymd2Ord(FirstYear, 1, 1) .. Ymd2Ord(FirstYear + NumYears - 1, 12, 31)

\* Academic years asked for.
TargetYears == (FirstYear - 1) .. (FirstYear + NumYears)

\* Deadline dates: from Monday 12 December 2022, the week before the
\* Christmas closure of READABLE_CLOSED_DAYS.
DeadlineDates ==
    Ymd2Ord(2022, 12, 12) .. (Ymd2Ord(2022, 12, 12) + NumDeadlineDays - 1)

\* Closed-date lists tried with a deadline on date d: none, the list of the
\* source, and a short block right after the deadline.
ClosedLists(d) == { {}, ReadableClosedDates, (d + 1) .. (d + BlockDays) }

\* Closed-date lists that close a long run of days after the deadline: every
\* scanned day, or all but the last three weeks of the scanned days.
LongClosedLists(d) ==
    { (d + 1) .. (d + k) : k \in { MaxScanDays - 21, MaxScanDays - 20,
                                   MaxScanDays - 19, MaxScanDays } }

Idle ==
    /\ pc = "idle" /\ deadline = 0 /\ today = 0 /\ closed_dates = {}
    /\ days_elapsed = 0 /\ working_days_from_deadline = 0
    /\ days_from_deadline = 0 /\ marking_deadline = 0
    /\ is_working_day = FALSE /\ result = 0

NoCall ==
    /\ call = "none" /\ date = 0 /\ ayear = 0 /\ uweek = 0 /\ dow = 0 /\ ret = 0

\* ------------------------------------------- week functions, applied
InitWeek ==
    /\ Idle
    /\ call = "none" /\ uweek = 0 /\ dow = 0 /\ ret = 0
    /\ date \in Dates
    /\ ayear \in TargetYears

CallWeekOne ==
    /\ call = "none"
    /\ call' = "WeekOne"
    /\ ret' = WeekOne(ayear)
    /\ UNCHANGED <<date, ayear, uweek, dow>>
    /\ UNCHANGED deadlineVars

CallUniversityWeek ==
    /\ call = "none"
    /\ call' = "UniversityWeek"
    /\ ret' = UniversityWeek(date)
    /\ UNCHANGED <<date, ayear, uweek, dow>>
    /\ UNCHANGED deadlineVars

CallAcademicYear ==
    /\ call = "none"
    /\ call' = "AcademicYear"
    /\ ret' = AcademicYear(date)
    /\ UNCHANGED <<date, ayear, uweek, dow>>
    /\ UNCHANGED deadlineVars

CallDateFromUniversityWeek ==
    /\ call = "none"
    /\ \E y \in {ayear, AcademicYear(date)}, w \in {1, UniversityWeek(date)},
          d \in {0, Weekday(date)} :
        /\ call' = "DateFromUniversityWeek"
        /\ ayear' = y
        /\ uweek' = w
        /\ dow' = d
        /\ ret' = DateFromUniversityWeek(y, w, d)
    /\ UNCHANGED date
    /\ UNCHANGED deadlineVars

CallTermWeek ==
    /\ call = "none"
    /\ call' = "TermWeek"
    /\ ret' = TermWeek(date)
    /\ UNCHANGED <<date, ayear, uweek, dow>>
    /\ UNCHANGED deadlineVars

CallFindCorrespondingDate ==
    /\ call = "none"
    /\ call' = "FindCorrespondingDate"
    /\ ret' = FindCorrespondingDate(date, ayear)
    /\ UNCHANGED <<date, ayear, uweek, dow>>
    /\ UNCHANGED deadlineVars

NextWeek ==
    \/ CallWeekOne
    \/ CallUniversityWeek
    \/ CallAcademicYear
    \/ CallDateFromUniversityWeek
    \/ CallTermWeek
    \/ CallFindCorrespondingDate

SpecWeek == InitWeek /\ [][NextWeek]_vars

\* ------------------------------------------------ days_since_deadline
Init ==
    /\ NoCall
    /\ pc = "start"
    /\ days_elapsed = 0 /\ working_days_from_deadline = 0
    /\ days_from_deadline = 0 /\ marking_deadline = 0
    /\ is_working_day = FALSE /\ result = 0
    /\ \E d \in DeadlineDates :
        \/ \E tod \in 0 .. (TicksPerDay - 1), k \in (-1) .. (MaxElapsedDays * TicksPerDay) :
            /\ deadline = Midnight(d) + tod
            /\ today = Midnight(d) + tod + k
            /\ closed_dates \in ClosedLists(d)
        \/ /\ deadline = Midnight(d)
           /\ today = Midnight(d) + 1
           /\ closed_dates \in LongClosedLists(d)

\* Lines 178-189: the elapsed days, less weekends, less closed days; the scan
\* is set up.
ElapsedPass ==
    /\ pc = "start"
    /\ days_elapsed' =
          LET raw == RawElapsed(deadline, today)
          IN  RemoveClosedDays(deadline, today, closed_dates,
                  RemoveWeekends(deadline, 1, raw, raw))
    /\ working_days_from_deadline' = 0
    /\ days_from_deadline' = 1
    /\ pc' = "scan"
    /\ UNCHANGED <<deadline, today, closed_dates, marking_deadline, is_working_day, result>>
    /\ UNCHANGED weekVars

\* Lines 190-197: one iteration of the while loop, sys.exit included.
ScanStep ==
    /\ pc = "scan"
    /\ working_days_from_deadline < DAYS_TO_MARK
    /\ working_days_from_deadline' =
          IF CountsAsWorkingDay(deadline + days_from_deadline * TicksPerDay, closed_dates)
          THEN working_days_from_deadline + 1
          ELSE working_days_from_deadline
    /\ days_from_deadline' = days_from_deadline + 1
    /\ pc' = IF ScanLimitExceeded(days_from_deadline + 1) THEN "exited" ELSE "scan"
    /\ UNCHANGED <<deadline, today, closed_dates, days_elapsed, marking_deadline,
                   is_working_day, result>>
    /\ UNCHANGED weekVars

\* Lines 198-200: the loop has ended; the tuple is returned.
Return ==
    /\ pc = "scan"
    /\ ~(working_days_from_deadline < DAYS_TO_MARK)
    /\ marking_deadline' = deadline + (days_from_deadline - 1) * TicksPerDay
    /\ is_working_day' = CountsAsWorkingDay(today, closed_dates)
    /\ result' = days_elapsed - 1
    /\ pc' = "returned"
    /\ UNCHANGED <<deadline, today, closed_dates, days_elapsed,
                   working_days_from_deadline, days_from_deadline>>
    /\ UNCHANGED weekVars

Next ==
    \/ ElapsedPass
    \/ ScanStep
    \/ Return

Spec == Init /\ [][Next]_vars

\* The function runs on one thread and nothing else is scheduled: a step
\* that can be taken is taken.
FairSpec == Spec /\ WF_vars(Next)

\* ============================================================ claims
\* ------------------------------------------------- under SpecWeek

\* C1 (inversion): when DateFromUniversityWeek is called with the academic
\* year, the university week and the weekday of a date d, it returns d, also
\* for a d before WeekOne(d.year), which resolves against WeekOne(d.year - 1).
C1_Inversion ==
    ( /\ call = "DateFromUniversityWeek"
      /\ ayear = AcademicYear(date)
      /\ uweek = UniversityWeek(date)
      /\ dow = Weekday(date) ) => ret = date

\* C1's case: the round trip of a date before its calendar year's week one.
C1_Witness ==
    /\ call = "DateFromUniversityWeek"
    /\ date < WeekOne(YearOf(date))
    /\ ayear = YearOf(date) - 1
    /\ uweek = UniversityWeek(date)
    /\ dow = Weekday(date)
    /\ ret = date

\* C2 (term classification), as claimed: university week 5 gives term 1,
\* term week 1; week 16 gives term 1, term week 12; weeks 4 and 17 give term 0,
\* term week 0; the third element is the university week.
C2_TermClassification ==
    call = "TermWeek" =>
        /\ ret[3] = UniversityWeek(date)
        /\ (UniversityWeek(date) = 5 => ret = <<1, 1, 5>>)
        /\ (UniversityWeek(date) = 16 => ret = <<1, 12, 16>>)
        /\ (UniversityWeek(date) \in {4, 17} => (ret[1] = 0 /\ ret[2] = 0))

\* C6 (year boundary): for every year Y the day before WeekOne(Y) is a Sunday
\* of academic year Y-1, and WeekOne(Y) is a Monday of academic year Y and of
\* university week 1.
C6_YearBoundary ==
    \A Y \in TargetYears :
        /\ (call = "AcademicYear" /\ date = WeekOne(Y) - 1)
              => (Weekday(date) = 6 /\ ret = Y - 1)
        /\ (call = "AcademicYear" /\ date = WeekOne(Y))
              => (Weekday(date) = 0 /\ ret = Y)
        /\ (call = "UniversityWeek" /\ date = WeekOne(Y)) => ret = 1

\* C6's case: AcademicYear applied to the Sunday before a week one.
C6_Witness ==
    \E Y \in TargetYears :
        /\ call = "AcademicYear"
        /\ date = WeekOne(Y) - 1
        /\ ret = Y - 1

\* Number of weeks of academic year y.
WeeksInAcademicYear(y) == (WeekOne(y + 1) - WeekOne(y)) \div 7

\* C7, as claimed: the result of FindCorrespondingDate(d, Y) is in academic
\* year Y, in d's university week, on d's weekday, for every d and Y.
C7_PreservesPosition ==
    call = "FindCorrespondingDate" =>
        /\ AcademicYear(ret) = ayear
        /\ UniversityWeek(ret) = UniversityWeek(date)
        /\ Weekday(ret) = Weekday(date)

\* C7, amended: the weekday is always kept; the academic year is Y and the
\* university week is d's whenever academic year Y has that many weeks (always
\* for weeks 1 to 52); a d in week 53 projected onto a 52-week academic year Y
\* lands in week 1 of academic year Y+1.
C7_PreservesPositionIfWeekExists ==
    call = "FindCorrespondingDate" =>
        /\ Weekday(ret) = Weekday(date)
        /\ WeeksInAcademicYear(ayear) >= 52
        /\ (UniversityWeek(date) <= WeeksInAcademicYear(ayear)
              => (AcademicYear(ret) = ayear /\ UniversityWeek(ret) = UniversityWeek(date)))
        /\ (UniversityWeek(date) > WeeksInAcademicYear(ayear)
              => (AcademicYear(ret) = ayear + 1 /\ UniversityWeek(ret) = 1))

\* C7's case: a date of week 53 projected onto a 52-week academic year.
C7_Witness ==
    /\ call = "FindCorrespondingDate"
    /\ UniversityWeek(date) = 53
    /\ WeeksInAcademicYear(ayear) = 52
    /\ AcademicYear(ret) = ayear + 1

\* C10 (week ranges): WeekOne(Y) is a Monday, WeekOne(Y+1) is 52 or 53 weeks
\* later, every date's university week is in 1..53, and a date lies in the
\* week sequence of exactly one academic year, its own.
C10_WeekRanges ==
    /\ call = "WeekOne" =>
          /\ Weekday(ret) = 0
          /\ (WeekOne(ayear + 1) - ret) \in {52 * 7, 53 * 7}
    /\ call = "UniversityWeek" => ret \in 1 .. 53
    /\ call = "AcademicYear" =>
          /\ WeekOne(ret) <= date /\ date < WeekOne(ret + 1)
          /\ \A Y \in ((FirstYear - 2) .. (FirstYear + NumYears + 1)) :
                (WeekOne(Y) <= date /\ date < WeekOne(Y + 1)) => Y = ret

\* C10's case: a date in the 53rd week of a long academic year.
C10_Witness ==
    /\ call = "UniversityWeek"
    /\ ret = 53
    /\ date = WeekOne(YearOf(date)) - 1

\* ----------------------------------------------------- under Spec

\* A working day: Monday to Friday and not a closed date.
WorkingDate(d) == Weekday(d) <= 4 /\ d \notin closed_dates

\* Number of working days among the dates from .. to.
WorkingDaysIn(from, to) == Cardinality({ d \in from .. to : WorkingDate(d) })

\* C3 (working-day exclusion), as claimed: with a Friday deadline, today
\* exactly 7 days later and no closed date in between, the elapsed working
\* days returned are the weekdays d with deadline < d <= today.
C3_WorkingDayExclusion ==
    ( /\ pc = "returned"
      /\ Weekday(DateOf(deadline)) = 4
      /\ today = deadline + 7 * TicksPerDay
      /\ closed_dates \cap ((DateOf(deadline) + 1) .. DateOf(today)) = {} )
    => result = Cardinality({ d \in (DateOf(deadline) + 1) .. DateOf(today) :
                                 Weekday(d) <= 4 })

\* C4 (marking-deadline window): on return the marking deadline is the 15th
\* working day after the deadline, at the deadline's time of day; with a
\* Monday deadline and no closed date in range it is 21 days after it.
C4_MarkingDeadlineWindow ==
    pc = "returned" =>
        LET d == DateOf(deadline)
            m == DateOf(marking_deadline)
        IN  /\ m > d
            /\ marking_deadline - deadline = (m - d) * TicksPerDay
            /\ WorkingDate(m)
            /\ WorkingDaysIn(d + 1, m) = DAYS_TO_MARK
            /\ (Weekday(d) = 0 /\ closed_dates \cap ((d + 1) .. (d + 21)) = {})
                  => m = d + 21

\* C4's case: a Monday deadline with no closed dates has returned.
C4_Witness ==
    /\ pc = "returned"
    /\ Weekday(DateOf(deadline)) = 0
    /\ closed_dates = {}
    /\ marking_deadline = deadline + 21 * TicksPerDay

\* Every one of the MaxScanDays days after the deadline is closed.
AllScannedDaysClosed ==
    \A d \in (DateOf(deadline) + 1) .. (DateOf(deadline) + MaxScanDays) :
        d \in closed_dates

\* C5 (safety bound): an iteration of the scan starts on at most the 1000th
\* day, the function ends, by returning or by the fatal exit, and when every
\* scanned day is closed it ends in the fatal exit.
C5_SafetyBound ==
    /\ [](pc = "scan" => days_from_deadline <= MaxScanDays)
    /\ <>(pc \in {"returned", "exited"})
    /\ []((pc \in {"returned", "exited"} /\ AllScannedDaysClosed) => pc = "exited")

\* C5's case: the fatal exit after 1000 closed days.
C5_Witness ==
    /\ pc = "exited"
    /\ AllScannedDaysClosed
    /\ days_from_deadline = MaxScanDays + 1
    /\ working_days_from_deadline = 0

\* C8 (elapsed formula), as claimed: for deadline <= today the result is
\* raw_elapsed - weekend_count - closed_count - 1, the weekends counted among
\* deadline+1 .. deadline+raw_elapsed, the closed dates c among
\* deadline < c <= today.
C8_ElapsedFormula ==
    (pc = "returned" /\ deadline <= today) =>
        LET raw == CHOOSE n \in 0 .. (MaxElapsedDays + 1) :
                      /\ n * TicksPerDay >= today - deadline
                      /\ (n - 1) * TicksPerDay < today - deadline
            weekend_count ==
                Cardinality({ i \in 1 .. raw : Weekday(DateOf(deadline) + i) > 4 })
            closed_count ==
                Cardinality({ c \in closed_dates :
                                deadline < Midnight(c) /\ Midnight(c) <= today })
        IN  result = raw - weekend_count - closed_count - 1

\* C9, as claimed: the function ends in the fatal exit only when fewer than
\* 15 working days lie among the scanned days deadline+1 .. deadline+1000.
C9_ExitOnlyIfNotReached ==
    pc = "exited" =>
        WorkingDaysIn(DateOf(deadline) + 1, DateOf(deadline) + MaxScanDays) < DAYS_TO_MARK

====
